---- MODULE Spec2Model ----
(***************************************************************************)
(* Model of streamlit_app.py: one rerun of the script per user action      *)
(* (Generate weekly plan, Clear conversation, Check connection, Refresh    *)
(* models), over st.session_state.messages.                                *)
(*                                                                         *)
(* Text is a sequence of pieces (one-character strings where the code      *)
(* inspects the characters, whole literals where it only concatenates),    *)
(* so an f-string is a concatenation with \o.                              *)
(***************************************************************************)
EXTENDS Integers, Sequences, FiniteSets, TLC

VARIABLES
    messages,          \* st.session_state.messages
    before,            \* history: messages when the rerun started
    action,            \* the button that triggered the latest rerun
    probe,             \* what requests.get did in the latest check_ollama_host / refresh
    check_result,      \* (ok, msg) returned by check_ollama_host in the latest rerun
    available_models,  \* list_models(...) of a Refresh rerun
    max_history,       \* the sidebar number_input
    messages_to_send,  \* the slice handed to client.chat
    client,            \* what safe_client returned
    chat_calls,        \* the messages argument of every client.chat call of the rerun
    chat_outcome,      \* what client.chat did: a stream or an exception
    shown,             \* st.error / st.success / st.info / st.write calls of the rerun
    updates,           \* response_placeholder.markdown calls, in order
    raised             \* an exception that escaped the script run, or "none"

vars == << messages, before, action, probe, check_result, available_models,
           max_history, messages_to_send, client, chat_calls, chat_outcome,
           shown, updates, raised >>

-----------------------------------------------------------------------------
(* Bounds of the model *)

MaxStore == 2      \* a Generate rerun starts only while Len(messages) < MaxStore

-----------------------------------------------------------------------------
(* Text helpers *)

UpperChars == << "A", "B", "C", "D", "E", "F", "G", "H", "I", "J", "K", "L", "M",
                 "N", "O", "P", "Q", "R", "S", "T", "U", "V", "W", "X", "Y", "Z" >>
LowerChars == << "a", "b", "c", "d", "e", "f", "g", "h", "i", "j", "k", "l", "m",
                 "n", "o", "p", "q", "r", "s", "t", "u", "v", "w", "x", "y", "z" >>

LowerChar(c) ==
    IF \E i \in 1..Len(UpperChars) : UpperChars[i] = c
    THEN LowerChars[CHOOSE i \in 1..Len(UpperChars) : UpperChars[i] = c]
    ELSE c

\* str.lower()
lower(s) == [i \in 1..Len(s) |-> LowerChar(s[i])]

\* needle in s  (Python substring test)
Contains(s, needle) ==
    \E i \in 0..(Len(s) - Len(needle)) :
        \A j \in 1..Len(needle) : s[i + j] = needle[j]

Whitespace == {" ", "\t", "\n"}

RECURSIVE lstrip(_)
lstrip(s) == IF s # <<>> /\ Head(s) \in Whitespace THEN lstrip(Tail(s)) ELSE s

RECURSIVE rstrip(_)
rstrip(s) ==
    IF s # <<>> /\ s[Len(s)] \in Whitespace THEN rstrip(SubSeq(s, 1, Len(s) - 1)) ELSE s

\* str.strip()
strip(s) == rstrip(lstrip(s))

\* s[start:] with Python's index normalisation
PySliceFrom(s, start) ==
    LET n  == Len(s)
        lo == IF start < 0
              THEN (IF start + n < 0 THEN 0 ELSE start + n)
              ELSE (IF start > n THEN n ELSE start)
    IN  SubSeq(s, lo + 1, n)

-----------------------------------------------------------------------------
(* requests: what a GET can do, and the exception classes involved *)

\* direct base classes (requests.exceptions and the builtins they derive from)
Bases(c) ==
    CASE c = "ConnectTimeout"   -> {"ConnectionError", "Timeout"}
      [] c = "ReadTimeout"      -> {"Timeout"}
      [] c = "SSLError"         -> {"ConnectionError"}
      [] c = "ConnectionError"  -> {"RequestException"}
      [] c = "Timeout"          -> {"RequestException"}
      [] c = "InvalidURL"       -> {"RequestException", "ValueError"}
      [] c = "MissingSchema"    -> {"RequestException", "ValueError"}
      [] c = "InvalidSchema"    -> {"RequestException", "ValueError"}
      [] c = "RequestException" -> {"OSError"}
      [] c = "OSError"          -> {"Exception"}
      [] c = "ValueError"       -> {"Exception"}
      [] c = "RuntimeError"     -> {"Exception"}
      [] OTHER                  -> {}

RECURSIVE IsInstance(_, _)
\* isinstance(e, cls) for an exception e of class c: what an except clause tests
IsInstance(c, cls) == c = cls \/ \E b \in Bases(c) : IsInstance(b, cls)

NoProbe == [kind |-> "none", status |-> 0, exc |-> "", text |-> <<>>, body |-> <<>>]

Response(status, body) ==
    [kind |-> "response", status |-> status, exc |-> "", text |-> <<>>, body |-> body]

Raises(exc, text) ==
    [kind |-> "raise", status |-> 0, exc |-> exc, text |-> text, body |-> <<>>]

\* failures of requests.get(host, timeout=...)
GetFailures ==
    { Raises("ConnectionError", <<"Connection refused">>),
      Raises("ConnectTimeout",  <<"connect timed out">>),
      Raises("ReadTimeout",     <<"read timed out">>),
      Raises("InvalidURL",      <<"Invalid URL 'http://': No host supplied">>),
      Raises("MissingSchema",   <<"Invalid URL 'localhost:11434': No scheme supplied">>),
      Raises("RuntimeError",    <<"unexpected">>) }

\* outcomes of the GET to the host root
RootOutcomes == { Response(200, <<>>) } \cup GetFailures

\* the source writes a dash character where these literals have a hyphen,
\* and quotes the commands in backticks
MsgRefused == << "Connection refused - is Ollama running? Try ollama serve" >>
MsgInvalid == << "Invalid host URL. Make sure it starts with http:// or https://" >>
MsgTimeout == << "Connection timed out - check network and host/port" >>

check_ollama_host(get) ==
    IF get.kind = "response"
    THEN [ok |-> TRUE, msg |-> << "Reachable: HTTP ", ToString(get.status) >>]
    ELSE IF IsInstance(get.exc, "ConnectionError") THEN [ok |-> FALSE, msg |-> MsgRefused]
    ELSE IF IsInstance(get.exc, "InvalidURL")      THEN [ok |-> FALSE, msg |-> MsgInvalid]
    ELSE IF IsInstance(get.exc, "Timeout")         THEN [ok |-> FALSE, msg |-> MsgTimeout]
    ELSE [ok |-> FALSE, msg |-> << "Error: " >> \o get.text]

NoCheck == [ok |-> FALSE, msg |-> <<>>]

-----------------------------------------------------------------------------
(* list_models: GET {host}/v1/models, resp.json(), the comprehension *)

\* entries of the data array: JSON objects (with or without an id member),
\* numbers, and strings (chars holds the characters of a string entry)
Entry(t, hasId, id, chars) == [t |-> t, hasId |-> hasId, id |-> id, chars |-> chars]

EGemma  == Entry("object", TRUE,  "gemma3:1b", <<>>)
ELlama  == Entry("object", TRUE,  "llama3", <<>>)
ENoId   == Entry("object", FALSE, "", <<>>)
ENumber == Entry("number", FALSE, "", <<>>)
EString == Entry("string", FALSE, "", << "i", "d" >>)
EOther  == Entry("string", FALSE, "", << "x" >>)

\* JSON bodies: shape of the top-level value, and its "data" member
Body(shape, hasData, dataType, items) ==
    [shape |-> shape, hasData |-> hasData, dataType |-> dataType, items |-> items]

NotJson     == Body("notjson", FALSE, "", <<>>)
JsonArray   == Body("array",   FALSE, "", <<>>)
JsonNoData  == Body("object",  FALSE, "", <<>>)
JsonNull    == Body("object",  TRUE,  "null", <<>>)
JsonData(items) == Body("object", TRUE, "list", items)

Bodies ==
    { NotJson, JsonArray, JsonNoData, JsonNull,
      JsonData(<<>>),
      JsonData(<< EGemma >>),
      JsonData(<< ELlama, ENoId, EGemma >>),
      JsonData(<< EGemma, ENumber >>),
      JsonData(<< EString, ELlama >>),
      JsonData(<< EOther, ELlama >>) }

\* outcomes of the GET to /v1/models
ModelsOutcomes ==
    { Response(200, b) : b \in Bodies }
        \cup { Response(404, NotJson),
               Response(500, JsonData(<< EGemma >>)),
               Response(503, JsonData(<< ELlama, ENoId, EGemma >>)),
               Raises("ConnectionError", <<"Connection refused">>) }

\* the membership test of the comprehension: a key lookup for an object, a
\* substring test for a string, a TypeError for a number
HasIdKey(m) == IF m.t = "string" THEN Contains(m.chars, << "i", "d" >>) ELSE m.hasId

\* the entry makes the comprehension raise: the test itself (number), or
\* m.get on a string that passed the test
EntryRaises(m) == m.t = "number" \/ (m.t = "string" /\ HasIdKey(m))

RECURSIVE Ids(_)
\* the list comprehension over items none of which raises
Ids(items) ==
    IF items = <<>> THEN <<>>
    ELSE IF HasIdKey(Head(items)) THEN << Head(items).id >> \o Ids(Tail(items))
    ELSE Ids(Tail(items))

list_models(get) ==
    IF get.kind = "raise" THEN <<>>                         \* requests.get raised
    ELSE IF get.body.shape = "notjson" THEN <<>>            \* resp.json() raised
    ELSE IF get.body.shape = "array" THEN <<>>              \* list has no .get
    ELSE IF ~get.body.hasData THEN <<>>                     \* data.get falls back to an empty list
    ELSE IF get.body.dataType # "list" THEN <<>>            \* None is not iterable
    ELSE IF \E i \in 1..Len(get.body.items) : EntryRaises(get.body.items[i]) THEN <<>>
    ELSE Ids(get.body.items)

-----------------------------------------------------------------------------
(* Display surface calls *)

Show(fn, text) == [fn |-> fn, text |-> text]

InfoTypicalFixes ==
    Show("info", << "Typical fixes: run ollama serve in a terminal, verify host/port, or set OLLAMA_HOST in .env" >>)
InfoNoModels ==
    Show("info", << "No models found at the provided host." >>)

-----------------------------------------------------------------------------
(* Session state *)

Roles == {"system", "user", "assistant"}

Message(role, content) == [role |-> role, content |-> content]

NoChat == [kind |-> "none", frags |-> <<>>, exc |-> "", text |-> <<>>]

\* what a rerun leaves of the previous rerun's locals: nothing
Idle(act) ==
    /\ action' = act
    /\ before' = messages
    /\ max_history' = 0
    /\ messages_to_send' = <<>>
    /\ client' = "unset"
    /\ chat_calls' = <<>>
    /\ chat_outcome' = NoChat
    /\ updates' = <<>>
    /\ raised' = "none"

Init ==
    /\ messages = <<>>
    /\ before = <<>>
    /\ action = "start"
    /\ probe = NoProbe
    /\ check_result = NoCheck
    /\ available_models = <<>>
    /\ max_history = 0
    /\ messages_to_send = <<>>
    /\ client = "unset"
    /\ chat_calls = <<>>
    /\ chat_outcome = NoChat
    /\ shown = <<>>
    /\ updates = <<>>
    /\ raised = "none"

\* a slip that would keep the latest message
cleared_but_last(msgs) == IF msgs = <<>> THEN <<>> ELSE << msgs[Len(msgs)] >>

\* st.session_state.messages = []
cleared(msgs) == <<>>

\* "Clear conversation"
Clear ==
    /\ messages' = cleared(messages)
    /\ Idle("clear")
    /\ probe' = NoProbe
    /\ check_result' = NoCheck
    /\ available_models' = <<>>
    /\ shown' = <<>>

\* "Check connection": check_ollama_host and its banner
Check ==
    \E get \in RootOutcomes :
        LET r == check_ollama_host(get) IN
        /\ probe' = get
        /\ check_result' = r
        /\ shown' = IF r.ok THEN << Show("success", r.msg) >>
                    ELSE << Show("error", r.msg), InfoTypicalFixes >>
        /\ available_models' = <<>>
        /\ Idle("check")
        /\ UNCHANGED messages

\* "Refresh models": list_models and the hint when nothing was found
Refresh ==
    \E get \in ModelsOutcomes :
        LET found == list_models(get) IN
        /\ probe' = get
        /\ available_models' = found
        /\ shown' = IF found = <<>> THEN << InfoNoModels >> ELSE <<>>
        /\ check_result' = NoCheck
        /\ Idle("refresh")
        /\ UNCHANGED messages

-----------------------------------------------------------------------------
(* The form and the plan request *)

Form(age, problems, minutes, goal) ==
    [user_age |-> age, known_problems |-> problems,
     time_for_exercise |-> minutes, fitness_goal |-> goal]

Forms == { Form(30, "", 45, "Lose weight"),
           Form(62, "knee pain", 20, "Gain muscle mass") }

plan_request(f) ==
    << "Create a 7-day weekly exercise plan for a ", ToString(f.user_age), "-year-old. ",
       "Known health problems: ",
       (IF f.known_problems = "" THEN "None" ELSE f.known_problems), ". ",
       "Available time per session: ", ToString(f.time_for_exercise), " minutes. ",
       "Fitness goal: ", f.fitness_goal, ". ",
       "Provide a daily breakdown (day name, exercise type, sets/reps or duration, intensity), safety notes, and a short warm-up and cool-down. Be concise and use bullet points." >>

SystemPrompts == { <<>>, << " " >>, << " ", "s", " " >> }

MinHistory == 1
MaxHistory == 50
HistoryChoices == { MinHistory, MinHistory + 1, MaxHistory }

-----------------------------------------------------------------------------
(* safe_client *)

ClientEnv(imported, hostCtor, defaultCtor) ==
    [imported |-> imported, hostCtor |-> hostCtor, defaultCtor |-> defaultCtor]

\* whether the ollama package imported, and whether each constructor call succeeds
ClientEnvs == { ClientEnv(TRUE, TRUE, TRUE), ClientEnv(TRUE, FALSE, TRUE),
                ClientEnv(TRUE, FALSE, FALSE), ClientEnv(FALSE, FALSE, FALSE) }

safe_client(env) ==
    IF ~env.imported THEN "None"
    ELSE IF env.hostCtor THEN "Client(host)"
    ELSE IF env.defaultCtor THEN "Client()"
    ELSE "None"

-----------------------------------------------------------------------------
(* client.chat: a stream of chunks, or an exception *)

Chunk(type, message, content, text) ==
    [type |-> type, message |-> message, content |-> content, text |-> text]

Hel == << "H", "e", "l" >>
Lo  == << "l", "o" >>

DictText          == Chunk("dict",   "present", "str",    Hel)
DictNoMessage     == Chunk("dict",   "absent",  "absent", <<>>)
DictMessageNone   == Chunk("dict",   "None",    "absent", <<>>)
DictContentNone   == Chunk("dict",   "present", "None",   <<>>)
ObjectText        == Chunk("object", "present", "str",    Lo)
ObjectNoMessage   == Chunk("object", "absent",  "absent", <<>>)
ObjectNoContent   == Chunk("object", "present", "absent", <<>>)
ObjectContentNone == Chunk("object", "present", "None",   <<>>)

Chunks == { DictText, DictNoMessage, DictMessageNone, DictContentNone,
            ObjectText, ObjectNoMessage, ObjectNoContent, ObjectContentNone }

\* the streams the model server delivers: every single chunk, and longer ones
\* mixing text with each malformed shape
Streams ==
    { <<>> } \cup { << c >> : c \in Chunks } \cup
    { << DictText, ObjectText >>,
      << ObjectText, DictText >>,
      << DictText, ObjectText, DictNoMessage >>,
      << DictText, DictMessageNone, ObjectText >>,
      << ObjectText, ObjectNoContent, ObjectText >>,
      << DictNoMessage, DictMessageNone, ObjectNoContent >>,
      << DictText, DictContentNone, ObjectText >>,
      << DictText, ObjectText, ObjectNoMessage >>,
      << ObjectText, ObjectContentNone >> }

Stream(frags) == [kind |-> "stream", frags |-> frags, exc |-> "", text |-> <<>>]
ChatRaises(exc, text) == [kind |-> "raise", frags |-> <<>>, exc |-> exc, text |-> text]

\* exception classes of a connection refused, a timeout and a DNS failure
TransportClasses == { "ConnectionError", "ConnectTimeout", "gaierror" }

ChatFailures ==
    { ChatRaises("ResponseError", << "m", "o", "d", "e", "l", " ", "r", "e", "q", "u", "i", "r", "e", "s", " ", "m", "o", "r", "e", " ", "s", "y", "s", "t", "e", "m", " ", "m", "e", "m", "o", "r", "y" >>),
      ChatRaises("ResponseError", << "C", "U", "D", "A", " ", "O", "u", "t", " ", "O", "f", " ", "M", "E", "M", "O", "R", "Y" >>),
      ChatRaises("ResponseError", << "m", "e", "m", "o", " ", "r", "y" >>),
      ChatRaises("ResponseError", << "n", "o", "t", " ", "f", "o", "u", "n", "d" >>),
      ChatRaises("ConnectionError", << "r", "e", "f", "u", "s", "e", "d" >>),
      ChatRaises("ConnectionError", << "n", "o", " ", "r", "o", "u", "t", "e", " ", "t", "o", " ", "m", "e", "m", "o", "r", "y", "-", "b", "o", "x" >>),
      ChatRaises("gaierror", << "N", "a", "m", "e", " ", "n", "o", "t", " ", "k", "n", "o", "w", "n" >>) }

ChatOutcomes == { Stream(f) : f \in Streams } \cup ChatFailures

RequiresMoreSystemMemory ==
    << "r", "e", "q", "u", "i", "r", "e", "s", " ", "m", "o", "r", "e", " ",
       "s", "y", "s", "t", "e", "m", " ", "m", "e", "m", "o", "r", "y" >>
OutOfMemory == << "o", "u", "t", " ", "o", "f", " ", "m", "e", "m", "o", "r", "y" >>
Memory      == << "m", "e", "m", "o", "r", "y" >>

\* a slip that would compare without lowering the text
is_memory_error_cased(err_text) ==
    \/ Contains(err_text, RequiresMoreSystemMemory)
    \/ Contains(err_text, OutOfMemory)
    \/ Contains(err_text, Memory)

\* the condition of the if that detects resource errors
is_memory_error(err_text) ==
    \/ Contains(err_text, RequiresMoreSystemMemory)
    \/ Contains(lower(err_text), OutOfMemory)
    \/ Contains(lower(err_text), Memory)

ErrInsufficientMemory ==
    Show("error", << "The model failed to run due to insufficient system memory." >>)
ExpanderWhy == Show("expander", << "Why this happened and how to fix it" >>)
ErrNoClient ==
    Show("error", << "Could not create Ollama client. Check that the ollama package is installed and Ollama is reachable." >>)

ErrUnreachable == Show("error", << "Service unreachable" >>)

\* a variant that would look at the class of the exception first
chat_error_shown_by_class(exc, err_text) ==
    IF exc \in TransportClasses THEN << ErrUnreachable >>
    ELSE IF is_memory_error(err_text)
    THEN << ErrInsufficientMemory, ExpanderWhy,
            Show("write", << "(raw error: " >> \o err_text \o << ")" >>) >>
    ELSE << Show("error", << "Error calling Ollama: " >> \o err_text) >>

\* the except branch around client.chat: what it shows for an exception of
\* class exc whose str() is err_text
chat_error_shown(exc, err_text) ==
    IF is_memory_error(err_text)
    THEN << ErrInsufficientMemory, ExpanderWhy,
            Show("write", << "(raw error: " >> \o err_text \o << ")" >>) >>
    ELSE << Show("error", << "Error calling Ollama: " >> \o err_text) >>

\* content_piece after the try block; none stands for Python None
Piece(none, s) == [none |-> none, s |-> s]

content_piece(chunk) ==
    IF chunk.type = "dict"
    THEN IF chunk.message = "absent" THEN Piece(FALSE, <<>>)      \* {}.get
         ELSE IF chunk.message = "None" THEN Piece(FALSE, <<>>)   \* AttributeError, caught
         ELSE IF chunk.content = "absent" THEN Piece(FALSE, <<>>)
         ELSE IF chunk.content = "None" THEN Piece(TRUE, <<>>)
         ELSE Piece(FALSE, chunk.text)
    ELSE IF chunk.message # "present" THEN Piece(TRUE, <<>>)      \* getattr default None
         ELSE IF chunk.content = "absent" THEN Piece(FALSE, <<>>)
         ELSE IF chunk.content = "None" THEN Piece(TRUE, <<>>)
         ELSE Piece(FALSE, chunk.text)

RECURSIVE consume(_, _, _)
\* the for loop over the stream: assistant_text += content_piece raises TypeError
\* when content_piece is None; otherwise the placeholder shows the text so far
consume(frags, assistant_text, ups) ==
    IF frags = <<>>
    THEN [assistant_text |-> assistant_text, updates |-> ups, raised |-> "none"]
    ELSE LET piece == content_piece(Head(frags)) IN
         IF piece.none
         THEN [assistant_text |-> assistant_text, updates |-> ups, raised |-> "TypeError"]
         ELSE consume(Tail(frags), assistant_text \o piece.s,
                      Append(ups, << "**Assistant:** " >> \o (assistant_text \o piece.s)))

\* a slip that would take the oldest messages instead of the newest
window_head(msgs, n) == SubSeq(msgs, 1, IF n < Len(msgs) THEN n ELSE Len(msgs))

\* messages[-int(max_history):]
window(msgs, n) == PySliceFrom(msgs, 0 - n)

\* a slip that would append the assistant message outside the stream test
append_assistant_unguarded(msgs, chat, done) ==
    IF done.raised = "none"
    THEN Append(msgs, Message("assistant", done.assistant_text))
    ELSE msgs

\* the store after the stream block: the assistant message is appended only
\* when there was a stream and the loop over it ran to its end
append_assistant(msgs, chat, done) ==
    IF chat.kind = "stream" /\ done.raised = "none"
    THEN Append(msgs, Message("assistant", done.assistant_text))
    ELSE msgs

NotConsumed == [assistant_text |-> <<>>, updates |-> <<>>, raised |-> "none"]

\* the if send: block, as the values it leaves behind
submit(msgs, system_prompt, form, n, get, env, chat) ==
    LET sp == strip(system_prompt)
        m1 == IF sp # <<>> THEN Append(msgs, Message("system", sp)) ELSE msgs
        m2 == Append(m1, Message("user", plan_request(form)))
        w  == window(m2, n)
        r  == check_ollama_host(get)
        c  == safe_client(env)
        base == [messages |-> m2, messages_to_send |-> w, check_result |-> r,
                 client |-> "unset", chat_calls |-> <<>>, chat_outcome |-> NoChat,
                 shown |-> <<>>, updates |-> <<>>, raised |-> "none"]
    IN  IF ~r.ok
        THEN [base EXCEPT !.shown =
                 << Show("error", << "Ollama host check failed: " >> \o r.msg) >>]
        ELSE IF c = "None"
        THEN [base EXCEPT !.client = c, !.shown = << ErrNoClient >>]
        ELSE IF chat.kind = "raise"
        THEN [base EXCEPT !.client = c, !.chat_calls = << w >>, !.chat_outcome = chat,
                          !.shown = chat_error_shown(chat.exc, chat.text),
                          !.messages = append_assistant(m2, chat, NotConsumed)]
        ELSE LET done == consume(chat.frags, <<>>, <<>>) IN
             [base EXCEPT !.client = c, !.chat_calls = << w >>, !.chat_outcome = chat,
                          !.updates = done.updates, !.raised = done.raised,
                          !.messages = append_assistant(m2, chat, done)]

NoEnv == ClientEnv(FALSE, FALSE, FALSE)

\* "Generate weekly plan".  The environment is consulted only as far as the run
\* gets: no client is built after a failed host check, no chat call is made
\* without a client.
Generate ==
    /\ Len(messages) < MaxStore
    /\ \E system_prompt \in SystemPrompts, form \in Forms, n \in HistoryChoices,
          get \in RootOutcomes :
       \E env \in (IF check_ollama_host(get).ok THEN ClientEnvs ELSE { NoEnv }) :
       \E chat \in (IF check_ollama_host(get).ok /\ safe_client(env) # "None"
                    THEN ChatOutcomes ELSE { NoChat }) :
          \E out \in { submit(messages, system_prompt, form, n, get, env, chat) } :
          /\ messages' = out.messages
          /\ before' = messages
          /\ action' = "send"
          /\ probe' = get
          /\ check_result' = out.check_result
          /\ available_models' = <<>>
          /\ max_history' = n
          /\ messages_to_send' = out.messages_to_send
          /\ client' = out.client
          /\ chat_calls' = out.chat_calls
          /\ chat_outcome' = out.chat_outcome
          /\ shown' = out.shown
          /\ updates' = out.updates
          /\ raised' = out.raised

Next == Generate \/ Clear \/ Check \/ Refresh

Spec == Init /\ [][Next]_vars

-----------------------------------------------------------------------------
(* Vocabulary of the properties *)

Sent == action = "send"

\* the messages the latest rerun added to the store
Appended == SubSeq(messages, Len(before) + 1, Len(messages))

CountRole(seq, role) == Cardinality({ i \in 1..Len(seq) : seq[i].role = role })

\* the store still starts with what it held when the rerun began
KeepsEarlier == Len(messages) >= Len(before) /\ SubSeq(messages, 1, Len(before)) = before

\* position of the user message a Generate rerun appended
UserPos ==
    IF Len(messages) > Len(before) /\ messages[Len(before) + 1].role = "system"
    THEN Len(before) + 2
    ELSE Len(before) + 1

Streamed == Sent /\ chat_outcome.kind = "stream"
ChatFailed == Sent /\ chat_outcome.kind = "raise"
HostDown == Sent /\ ~check_result.ok

\* the text a fragment carries: its message content when that is a string
FragmentText(chunk) ==
    IF chunk.message = "present" /\ chunk.content = "str" THEN chunk.text ELSE <<>>

RECURSIVE Concatenation(_)
Concatenation(frags) ==
    IF frags = <<>> THEN <<>> ELSE FragmentText(Head(frags)) \o Concatenation(Tail(frags))

\* the letters of memory in either case, position by position
MemoryAnyCase ==
    << {"m", "M"}, {"e", "E"}, {"m", "M"}, {"o", "O"}, {"r", "R"}, {"y", "Y"} >>

MentionsMemory(text) ==
    \E i \in 0..(Len(text) - Len(MemoryAnyCase)) :
        \A j \in 1..Len(MemoryAnyCase) : text[i + j] \in MemoryAnyCase[j]

IsShown(banner) == \E i \in 1..Len(shown) : shown[i] = banner

ResourceShown == IsShown(ErrInsufficientMemory)
GenericShown == IsShown(Show("error", << "Error calling Ollama: " >> \o chat_outcome.text))
GenericPrefixShown ==
    \E i \in 1..Len(shown) :
        shown[i].fn = "error" /\ Head(shown[i].text) = "Error calling Ollama: "
UnreachableShown ==
    \E i \in 1..Len(shown) :
        /\ shown[i].fn = "error"
        /\ shown[i] # ErrInsufficientMemory
        /\ Head(shown[i].text) # "Error calling Ollama: "

-----------------------------------------------------------------------------
(* C1 *)

\* C1: every submit whose host check succeeds, whose client is created and
\* whose chat call returns a finite stream gains exactly one user message and
\* exactly one assistant message, the assistant last, its content the
\* concatenation of the fragment contents in arrival order.
C1_FullStreamAppendsBoth ==
    Streamed =>
        /\ KeepsEarlier
        /\ CountRole(Appended, "user") = 1
        /\ CountRole(Appended, "assistant") = 1
        /\ messages[Len(messages)] =
               Message("assistant", Concatenation(chat_outcome.frags))

-----------------------------------------------------------------------------
(* C2 *)

\* C2: a submit that fails before streaming (host check not ok, or client.chat
\* raises) appends no assistant message and leaves the user message it
\* appended as the last message; when the host check fails client.chat is
\* never called.
C2_FailureBeforeStreaming ==
    (HostDown \/ ChatFailed) =>
        /\ KeepsEarlier
        /\ CountRole(Appended, "assistant") = 0
        /\ CountRole(Appended, "user") = 1
        /\ Len(messages) = UserPos
        /\ messages[Len(messages)].role = "user"
        /\ (HostDown => chat_calls = <<>>)
        /\ (ChatFailed => Len(chat_calls) = 1)

\* a chat call that raised, on a store that already held a conversation
C2_Witness == ChatFailed /\ before # <<>> /\ messages[Len(messages)].role = "user"

-----------------------------------------------------------------------------
(* C3 *)

\* C3: stream consumption never raises on a malformed fragment: whatever the
\* shapes of the fragments, a malformed one contributes the empty string, the
\* loop reaches the end of the stream and the assistant message is appended.
C3_MalformedAbsorbed ==
    Streamed =>
        /\ raised = "none"
        /\ Len(updates) = Len(chat_outcome.frags)
        /\ messages[Len(messages)].role = "assistant"

-----------------------------------------------------------------------------
(* C4 *)

\* C4: the live view is updated exactly once after each fragment, in order,
\* with the text accumulated so far: k fragments give k updates, the j-th
\* showing the concatenation of the first j fragment contents.
C4_OneUpdatePerFragment ==
    Streamed =>
        /\ Len(updates) = Len(chat_outcome.frags)
        /\ \A j \in 1..Len(updates) :
               updates[j] = << "**Assistant:** " >>
                                \o Concatenation(SubSeq(chat_outcome.frags, 1, j))

-----------------------------------------------------------------------------
(* C5 *)

Min(a, b) == IF a < b THEN a ELSE b

\* C5: the messages sent with a request are exactly the last
\* min(max_history, length) messages of the store, in their order, taken after
\* the new user message was appended; computing them leaves the store as it was.
C5_WindowIsTail ==
    Sent =>
        LET k == Min(max_history, UserPos) IN
        /\ max_history >= MinHistory
        /\ KeepsEarlier
        /\ Len(messages) >= UserPos
        /\ messages[UserPos].role = "user"
        /\ Len(messages_to_send) = k
        /\ \A i \in 1..k : messages_to_send[i] = messages[UserPos - k + i]
        /\ \A i \in 1..Len(chat_calls) : chat_calls[i] = messages_to_send

\* a request whose window cuts the store: fewer messages sent than stored
C5_Witness ==
    Sent /\ max_history < UserPos /\ Len(chat_calls) = 1 /\ Len(messages_to_send) >= 2

-----------------------------------------------------------------------------
(* C6 *)

TimeoutFailure(exc) == exc \in {"ConnectTimeout", "ReadTimeout"}
MalformedUrlFailure(exc) == exc \in {"InvalidURL", "MissingSchema", "InvalidSchema"}
RefusedFailure(exc) == exc = "ConnectionError"

\* C6: check_ollama_host always returns a pair, and maps every failure of the
\* GET to one of four categories, each with its own message: a timeout gets
\* the timeout message, a malformed host URL the invalid-URL message, a refused
\* connection the refused message, anything else the generic one.
C6_FourCategories ==
    (action \in {"check", "send"} /\ probe.kind = "raise") =>
        /\ ~check_result.ok
        /\ check_result.msg =
             (IF TimeoutFailure(probe.exc) THEN MsgTimeout
              ELSE IF MalformedUrlFailure(probe.exc) THEN MsgInvalid
              ELSE IF RefusedFailure(probe.exc) THEN MsgRefused
              ELSE << "Error: " >> \o probe.text)

-----------------------------------------------------------------------------
(* C7 *)

WellFormedBody(body) ==
    /\ body.shape = "object"
    /\ body.hasData
    /\ body.dataType = "list"
    /\ \A i \in 1..Len(body.items) : body.items[i].t = "object"

\* the call failed: no response, a status other than 200, a body that is not
\* JSON, or a body without a list under data
ListingFailed(get) ==
    \/ get.kind = "raise"
    \/ get.status # 200
    \/ get.body.shape # "object"
    \/ ~get.body.hasData
    \/ get.body.dataType # "list"

IdsInOrder(items) ==
    LET keep == SelectSeq(items, LAMBDA m : m.hasId) IN [i \in 1..Len(keep) |-> keep[i].id]

\* C7: list_models returns the empty sequence whenever the listing call fails:
\* a network error, a body that is not JSON or is wrongly shaped, and any
\* non-200 status whatever the body; on success it returns the id of every
\* entry that has one, in order.
C7_EmptyOnAnyFailure ==
    action = "refresh" =>
        /\ (ListingFailed(probe) => available_models = <<>>)
        /\ (probe.kind = "response" /\ probe.status = 200 /\ WellFormedBody(probe.body)
               => available_models = IdsInOrder(probe.body.items))

-----------------------------------------------------------------------------
(* C8 *)

\* C8: when client.chat raises, an error text that mentions memory in any
\* letter case is reported with the insufficient-memory message and not with
\* the generic one; any other text is reported by the generic message alone,
\* carrying the raw text verbatim.
C8_MemoryIsResource ==
    ChatFailed =>
        IF MentionsMemory(chat_outcome.text)
        THEN ResourceShown /\ ~GenericPrefixShown
        ELSE shown = << Show("error", << "Error calling Ollama: " >> \o chat_outcome.text) >>

\* a memory failure spelled with capitals
C8_Witness ==
    /\ ChatFailed
    /\ MentionsMemory(chat_outcome.text)
    /\ ~Contains(chat_outcome.text, Memory)
    /\ ResourceShown

-----------------------------------------------------------------------------
(* C9 *)

\* C9 as stated: the categories are checked in the order transport, resource,
\* generic, so a transport failure raised by client.chat is reported as
\* service unreachable, also when its text mentions memory, and never as a
\* resource or generic failure.
C9_TransportFirst ==
    (ChatFailed /\ chat_outcome.exc \in TransportClasses) =>
        UnreachableShown /\ ~ResourceShown /\ ~GenericPrefixShown

\* C9 amended: a failure of client.chat is reported as exactly one of two
\* categories, resource or generic, and the class of the exception plays no
\* part: a transport failure is reported as a resource failure when its text
\* mentions memory and as the generic failure otherwise, and nothing is
\* reported as service unreachable.
C9_MemoryCheckOnly ==
    ChatFailed =>
        /\ ResourceShown # GenericShown
        /\ ResourceShown = MentionsMemory(chat_outcome.text)
        /\ ~UnreachableShown

\* a connection failure whose text mentions memory, reported as resource
C9_Witness ==
    /\ ChatFailed
    /\ chat_outcome.exc \in TransportClasses
    /\ MentionsMemory(chat_outcome.text)
    /\ ResourceShown

-----------------------------------------------------------------------------
(* C10 *)

IsPrefix(s, t) == Len(s) <= Len(t) /\ SubSeq(t, 1, Len(s)) = s

StepKeepsStoreDiscipline ==
    /\ action' \in {"send", "clear", "check", "refresh"}
    /\ (action' = "send" => IsPrefix(messages, messages') /\ Len(messages') > Len(messages))
    /\ (action' = "clear" => messages' = <<>>)
    /\ (action' \in {"check", "refresh"} => messages' = messages)
    /\ \A i \in 1..Len(messages') : messages'[i].role \in Roles

\* C10: across any sequence of user actions the store changes in two ways
\* only: Generate appends at the end and leaves every earlier message as it
\* was, Clear empties it whatever it held; Check and Refresh leave it alone,
\* and every stored message has the role system, user or assistant.
C10_AppendOrClear == [][StepKeepsStoreDiscipline]_vars

\* Clear acted on a conversation that held a full exchange
C10_Witness ==
    /\ action = "clear"
    /\ messages = <<>>
    /\ before # <<>>
    /\ before[Len(before)].role = "assistant"

====
